---------------------------- MODULE Spec2Model ----------------------------
(***************************************************************************)
(* Model of Scripts/validate_struct_initialization.py: the UPROPERTY FGuid *)
(* initialization validator (StructInitializationValidator and main).      *)
(*                                                                         *)
(* A header file is a sequence of lines (content.split('\n'), never empty). *)
(* The three regular expressions are tabulated over a finite alphabet of   *)
(* concrete source lines; indices are kept 0-based as in the Python code   *)
(* and turned into 1-based sequence positions only at the point of access. *)
(* Writes to stdout, to the --output file and to the suppression template  *)
(* are taken to succeed.                                                   *)
(***************************************************************************)
EXTENDS Integers, Sequences, FiniteSets, TLC

(***************************************************************************)
(* Bounds of the model.                                                    *)
(***************************************************************************)
MaxFiles == 2          \* header files the glob may return (main)
MaxSuppressions == 2   \* entries of a "suppressions" array
MaxLines == 6          \* lines of a header in the scanning inputs
MaxClassifyLines == 4  \* lines of a header in the classification inputs

(***************************************************************************)
(* Python values.                                                          *)
(***************************************************************************)
None == "<None>"

\* truthiness of an Optional[str] (`if args.x:` / `not suppression_file`)
Truthy(s) == s # None /\ s # ""

Range(s) == {s[k] : k \in DOMAIN s}

RECURSIVE SumSeq(_)
SumSeq(s) == IF s = <<>> THEN 0 ELSE Head(s) + SumSeq(Tail(s))

RECURSIVE Concat(_)
Concat(ss) == IF ss = <<>> THEN <<>> ELSE Head(ss) \o Concat(Tail(ss))

\* all sequences over S of length 1..n
SeqsUpTo(S, n) == UNION {[1..k -> S] : k \in 1..n}

\* all subsets of S with at most n elements
SubsetsUpTo(S, n) == {T \in SUBSET S : Cardinality(T) <= n}

(***************************************************************************)
(* Source lines and the three compiled patterns (__init__, lines 55-69).   *)
(***************************************************************************)
AnnotationLines == {"UPROPERTY()", "    UPROPERTY(EditAnywhere)"}

\* line -> <<group 1, group 2>> of fguid_declaration_pattern
DeclarationGroups ==
  [l \in {"FGuid A;", "FGuid A = FGuid();", "FGuid B = FGuid::NewGuid() ;",
          "FGuid B = FGuid(42);", "FGuid A = ;", "    FGuid B = FGuid(); // id",
          "FGuid A = FGuid ();"} |->
     CASE l = "FGuid A;"                      -> <<"A", None>>
       [] l = "FGuid A = FGuid();"            -> <<"A", "FGuid()">>
       [] l = "FGuid B = FGuid::NewGuid() ;"  -> <<"B", "FGuid::NewGuid() ">>
       [] l = "FGuid B = FGuid(42);"          -> <<"B", "FGuid(42)">>
       [] l = "FGuid A = ;"                   -> <<"A", " ">>
       [] l = "    FGuid B = FGuid(); // id"  -> <<"B", "FGuid()">>
       [] l = "FGuid A = FGuid ();"           -> <<"A", "FGuid ()">>]

\* line -> group 1 of struct_pattern
StructGroups ==
  [l \in {"struct FS", "USTRUCT() struct VIBEHEIM_API FT", "struct UnknownStruct"} |->
     CASE l = "struct FS"                        -> "FS"
       [] l = "USTRUCT() struct VIBEHEIM_API FT" -> "FT"
       [] l = "struct UnknownStruct"             -> "UnknownStruct"]

\* lines matching none of the patterns ("FGuid A =;" has '=' but no initializer;
\* an annotation followed by a declaration on the same line is no annotation line)
OtherLines == {"int32 X;", "FGuid A =;", "UPROPERTY() FGuid A;"}

AllLines == AnnotationLines \cup DOMAIN DeclarationGroups
              \cup DOMAIN StructGroups \cup OtherLines

\* self.uproperty_pattern.search(line)
uproperty_pattern(line) == line \in AnnotationLines

\* self.fguid_declaration_pattern.search(line): None, or the match's groups
fguid_declaration_pattern(line) ==
  IF line \in DOMAIN DeclarationGroups
    THEN [matched |-> TRUE, property_name |-> DeclarationGroups[line][1],
          initializer |-> DeclarationGroups[line][2]]
    ELSE [matched |-> FALSE, property_name |-> None, initializer |-> None]

\* self.struct_pattern.search(line): None, or group 1
struct_pattern(line) ==
  IF line \in DOMAIN StructGroups THEN StructGroups[line] ELSE None

\* str.strip() on the strings of the model
strip(s) ==
  CASE s = " "                           -> ""
    [] s = "FGuid::NewGuid() "           -> "FGuid::NewGuid()"
    [] s = "    UPROPERTY(EditAnywhere)" -> "UPROPERTY(EditAnywhere)"
    [] s = "    FGuid B = FGuid(); // id" -> "FGuid B = FGuid(); // id"
    [] OTHER                             -> s

\* self.valid_initializers
valid_initializers == {"FGuid()", "FGuid::NewGuid()"}

\* range(i + 1, min(i + 5, len(lines))): the lookahead stops before i + 5
LookaheadEnd == 5

Min(a, b) == IF a < b THEN a ELSE b

(***************************************************************************)
(* JSON values of the suppression file, as json.load returns them.  A      *)
(* string is JStr(s); a number or a nested array is a value that no        *)
(* candidate key (a str) is ever equal to.                                 *)
(***************************************************************************)
JStr(s) == [t |-> "str", v |-> s]
JInt == [t |-> "int", v |-> "1"]
JArray == [t |-> "list", v |-> "[1]"]

Hashable(item) == item.t # "list"

(***************************************************************************)
(* is_suppressed (lines 90-99).                                            *)
(***************************************************************************)
patterns_to_check(file_path, struct_name, property_name) ==
  << file_path \o ":" \o struct_name \o "::" \o property_name,
     struct_name \o "::" \o property_name,
     "*::" \o property_name,
     file_path >>

\* is_suppressed without the "*::{property}" candidate
is_suppressed_no_wildcard(suppression_patterns, file_path, struct_name, property_name) ==
  LET pats == patterns_to_check(file_path, struct_name, property_name)
  IN  \E k \in DOMAIN pats \ {3} : JStr(pats[k]) \in suppression_patterns

is_suppressed(suppression_patterns, file_path, struct_name, property_name) ==
  LET pats == patterns_to_check(file_path, struct_name, property_name)
  IN  \E k \in DOMAIN pats : JStr(pats[k]) \in suppression_patterns

(***************************************************************************)
(* find_struct_name (lines 101-112): range(line_number - 1, -1, -1).       *)
(***************************************************************************)
RECURSIVE find_struct_from(_, _)
find_struct_from(lines, i) ==
  IF i < 0 THEN "UnknownStruct"
  ELSE IF struct_pattern(lines[i + 1]) # None THEN struct_pattern(lines[i + 1])
  ELSE find_struct_from(lines, i - 1)

\* find_struct_name searching from the top of the file: the first structure line
find_struct_name_topmost(lines, line_number) ==
  LET S == {i \in 0..(line_number - 1) : struct_pattern(lines[i + 1]) # None}
  IN  IF S = {} THEN "UnknownStruct"
      ELSE struct_pattern(lines[(CHOOSE i \in S : \A i2 \in S : i <= i2) + 1])

find_struct_name(lines, line_number) == find_struct_from(lines, line_number - 1)

(***************************************************************************)
(* is_valid_initialization (lines 183-192).                                *)
(***************************************************************************)
\* is_valid_initialization that accepts any initializer
is_valid_initialization_any(prop) == prop.has_initializer

is_valid_initialization(prop) ==
  IF ~prop.has_initializer THEN FALSE
  ELSE strip(prop.initializer_value) \in valid_initializers

(***************************************************************************)
(* validate_file, detection loop (lines 123-160).                          *)
(***************************************************************************)
\* the inner for loop: the first j in range(j, stop) whose line matches, or -1
\* the inner loop without its break: the last matching line of the window
RECURSIVE first_declaration_no_break(_, _, _)
first_declaration_no_break(lines, j, stop) ==
  IF j >= stop THEN -1
  ELSE LET later == first_declaration_no_break(lines, j + 1, stop)
       IN  IF later >= 0 THEN later
           ELSE IF fguid_declaration_pattern(lines[j + 1]).matched THEN j
           ELSE -1

RECURSIVE first_declaration(_, _, _)
first_declaration(lines, j, stop) ==
  IF j >= stop THEN -1
  ELSE IF fguid_declaration_pattern(lines[j + 1]).matched THEN j
  ELSE first_declaration(lines, j + 1, stop)

\* the lookahead with its end one line further
lookahead_one_more(lines, i) ==
  first_declaration(lines, i + 1, Min(i + LookaheadEnd + 1, Len(lines)))

lookahead(lines, i) ==
  first_declaration(lines, i + 1, Min(i + LookaheadEnd, Len(lines)))

\* the FGuidProperty built at lines 139-155 for annotation line i, declaration line j
FGuidProperty(file_path, lines, i, j) ==
  LET m == fguid_declaration_pattern(lines[j + 1])
  IN  [file_path        |-> file_path,
       line_number      |-> j + 1,
       struct_name      |-> find_struct_name(lines, j + 1),
       property_name    |-> m.property_name,
       uproperty_line   |-> strip(lines[i + 1]),
       declaration_line |-> strip(lines[j + 1]),
       has_initializer  |-> m.initializer # None,
       initializer_value |-> IF Truthy(m.initializer) THEN strip(m.initializer) ELSE None]

\* the while loop from index i on
RECURSIVE scan_from(_, _, _)
scan_from(file_path, lines, i) ==
  IF i >= Len(lines) THEN <<>>
  ELSE LET j == lookahead(lines, i)
       IN  (IF uproperty_pattern(lines[i + 1]) /\ j >= 0
              THEN <<FGuidProperty(file_path, lines, i, j)>>
              ELSE <<>>)
           \o scan_from(file_path, lines, i + 1)

(***************************************************************************)
(* validate_file, categorisation loop (lines 162-181).                     *)
(***************************************************************************)
\* the categorisation with `if` in place of `elif`
categorize_one_if(suppression_patterns, file_path, acc, prop) ==
  LET a == IF is_suppressed(suppression_patterns, file_path, prop.struct_name,
                            prop.property_name)
             THEN [acc EXCEPT !.suppressed_properties = Append(@, prop)]
             ELSE acc
  IN  IF is_valid_initialization(prop)
        THEN [a EXCEPT !.valid_properties = Append(@, prop)]
        ELSE [a EXCEPT !.invalid_properties = Append(@, prop)]

\* one iteration of `for prop in properties_found`
categorize_one(suppression_patterns, file_path, acc, prop) ==
  IF is_suppressed(suppression_patterns, file_path, prop.struct_name, prop.property_name)
    THEN [acc EXCEPT !.suppressed_properties = Append(@, prop)]
  ELSE IF is_valid_initialization(prop)
    THEN [acc EXCEPT !.valid_properties = Append(@, prop)]
  ELSE [acc EXCEPT !.invalid_properties = Append(@, prop)]

RECURSIVE categorize(_, _, _, _)
categorize(suppression_patterns, file_path, acc, props) ==
  IF props = <<>> THEN acc
  ELSE categorize(suppression_patterns, file_path,
                  categorize_one(suppression_patterns, file_path, acc, Head(props)),
                  Tail(props))

ValidationResult(file_path, found, valid, invalid, suppressed) ==
  [file_path |-> file_path, properties_found |-> found, valid_properties |-> valid,
   invalid_properties |-> invalid, suppressed_properties |-> suppressed]

(***************************************************************************)
(* A directory entry the glob returns: a header with its lines, a file     *)
(* whose open/read raises IOError or UnicodeDecodeError, or a directory    *)
(* named *.h.                                                              *)
(***************************************************************************)
Header(lines) == [kind |-> "file", lines |-> lines]
Unreadable == [kind |-> "unreadable", lines |-> <<>>]
Directory == [kind |-> "dir", lines |-> <<>>]

\* validate_file (lines 114-181)
validate_file(suppression_patterns, file_path, entry) ==
  IF entry.kind = "unreadable"
    THEN ValidationResult(file_path, <<>>, <<>>, <<>>, <<>>)
  ELSE LET properties_found == scan_from(file_path, entry.lines, 0)
       IN  categorize(suppression_patterns, file_path,
                      ValidationResult(file_path, properties_found, <<>>, <<>>, <<>>),
                      properties_found)


(***************************************************************************)
(* load_suppressions (lines 78-88).  The suppression file on disk is       *)
(*   kind "missing"      os.path.exists is False                           *)
(*   kind "ioerror"      open raises IOError (no permission, a directory)  *)
(*   kind "undecodable"  read raises UnicodeDecodeError                    *)
(*   kind "badjson"      json.load raises JSONDecodeError                  *)
(*   kind "json"         json.load returns a document: top is the type of  *)
(*                       its top level; for an object, sup is the type of  *)
(*                       its "suppressions" member ("absent" without one)  *)
(*                       and items is what iterating that member yields:   *)
(*                       the elements of a "list", the characters of a     *)
(*                       "str" (each a JStr of one character), the keys of *)
(*                       an "object" (each a JStr); {} for a member that   *)
(*                       cannot be iterated ("null", "int").               *)
(***************************************************************************)
SuppFile(kind, top, sup, items) == [kind |-> kind, top |-> top, sup |-> sup, items |-> items]

NoFile == SuppFile("missing", "none", "absent", {})

\* the member types set() can iterate
Iterable == {"list", "str", "object"}

\* {"suppressions": "FS::A"}: iterating the string yields its characters
StringMember ==
  SuppFile("json", "object", "str", {JStr("F"), JStr("S"), JStr(":"), JStr("A")})

\* {"suppressions": {"FS::A": 1}}: iterating the object yields its keys
ObjectMember == SuppFile("json", "object", "object", {JStr("FS::A")})

SuppFileStates(items) ==
  {NoFile, SuppFile("ioerror", "none", "absent", {}),
   SuppFile("undecodable", "none", "absent", {}), SuppFile("badjson", "none", "absent", {}),
   SuppFile("json", "list", "absent", {}), SuppFile("json", "str", "absent", {}),
   SuppFile("json", "object", "absent", {}), SuppFile("json", "object", "null", {}),
   SuppFile("json", "object", "int", {}), StringMember, ObjectMember}
  \cup {SuppFile("json", "object", "list", T) : T \in SubsetsUpTo(items, MaxSuppressions)}

\* what load_suppressions does: the set it leaves in self.suppression_patterns,
\* whether it printed the warning, and the exception it lets escape (None: returns)
load_suppressions(suppression_file, file) ==
  LET ret(patterns, warned, raised) ==
        [patterns |-> patterns, warned |-> warned, raised |-> raised]
  IN  IF ~Truthy(suppression_file) \/ file.kind = "missing" THEN ret({}, FALSE, None)
      ELSE IF file.kind \in {"ioerror", "badjson"} THEN ret({}, TRUE, None)
      ELSE IF file.kind = "undecodable" THEN ret({}, FALSE, "UnicodeDecodeError")
      ELSE IF file.top # "object" THEN ret({}, FALSE, "AttributeError")
      ELSE IF file.sup = "absent" THEN ret({}, FALSE, None)
      ELSE IF file.sup \notin Iterable THEN ret({}, FALSE, "TypeError")
      ELSE IF \E it \in file.items : ~Hashable(it) THEN ret({}, FALSE, "TypeError")
      ELSE ret(file.items, FALSE, None)

(***************************************************************************)
(* generate_report (lines 211-269).  The report is its list of lines; the  *)
(* strings of the module are ASCII, so the two marks the code writes, the   *)
(* cross mark U+274C of the failure banner and the check mark U+2705 of the *)
(* success banner and of every valid item, are written as CrossMark and    *)
(* CheckMark, each standing for that one character.                        *)
(***************************************************************************)
total_properties(results) == SumSeq([k \in DOMAIN results |-> Len(results[k].properties_found)])
total_valid(results) == SumSeq([k \in DOMAIN results |-> Len(results[k].valid_properties)])
total_invalid(results) == SumSeq([k \in DOMAIN results |-> Len(results[k].invalid_properties)])
total_suppressed(results) == SumSeq([k \in DOMAIN results |-> Len(results[k].suppressed_properties)])

Rule80 == "================================================================================"
Rule40 == "----------------------------------------"
Rule20 == "--------------------"
Rule15 == "---------------"
CrossMark == "<U+274C>"
CheckMark == "<U+2705>"
BannerFailed == CrossMark \o " VALIDATION FAILED"
BannerPassed == CheckMark \o " VALIDATION PASSED"
InvalidHeading == "Invalid Properties (require fixes):"

Location(prop) == prop.file_path \o ":" \o ToString(prop.line_number)
Qualified(prop) == prop.struct_name \o "::" \o prop.property_name

\* lines 238-248
invalid_item(prop) ==
  << "File: " \o Location(prop),
     "Struct: " \o prop.struct_name,
     "Property: " \o prop.property_name,
     "Declaration: " \o prop.declaration_line >>
  \o (IF prop.has_initializer
        THEN << "Current initializer: " \o prop.initializer_value,
                "Issue: Invalid initializer pattern" >>
        ELSE << "Issue: Missing in-class initializer" >>)
  \o << "Expected: FGuid() or FGuid::NewGuid()", "" >>

\* line 258
suppressed_item(prop) == << Location(prop) \o " - " \o Qualified(prop) >>

\* line 266
valid_item(prop) ==
  << CheckMark \o " " \o Location(prop) \o " - " \o Qualified(prop)
       \o " = " \o prop.initializer_value >>

invalid_items(results) ==
  Concat([k \in DOMAIN results |->
    Concat([m \in DOMAIN results[k].invalid_properties |->
      invalid_item(results[k].invalid_properties[m])])])

suppressed_items(results) ==
  Concat([k \in DOMAIN results |->
    Concat([m \in DOMAIN results[k].suppressed_properties |->
      suppressed_item(results[k].suppressed_properties[m])])])

valid_items(results) ==
  Concat([k \in DOMAIN results |->
    Concat([m \in DOMAIN results[k].valid_properties |->
      valid_item(results[k].valid_properties[m])])])

\* the report with the banner decided by the properties that are not valid
generate_report_not_valid(results) ==
  << Rule80, "UPROPERTY FGuid Initialization Validation Report", Rule80, "",
     "Total files scanned: " \o ToString(Len(results)),
     "Total UPROPERTY FGuid properties found: " \o ToString(total_properties(results)),
     "Valid properties: " \o ToString(total_valid(results)),
     "Invalid properties: " \o ToString(total_invalid(results)),
     "Suppressed properties: " \o ToString(total_suppressed(results)),
     "" >>
  \o (IF total_properties(results) - total_valid(results) > 0
        THEN << BannerFailed, "", InvalidHeading, Rule40 >> \o invalid_items(results)
        ELSE << BannerPassed, "" >>)
  \o (IF total_suppressed(results) > 0
        THEN << "Suppressed Properties:", Rule20 >> \o suppressed_items(results) \o << "" >>
        ELSE <<>>)
  \o (IF total_valid(results) > 0
        THEN << "Valid Properties:", Rule15 >> \o valid_items(results) \o << "" >>
        ELSE <<>>)

generate_report(results) ==
  << Rule80, "UPROPERTY FGuid Initialization Validation Report", Rule80, "",
     "Total files scanned: " \o ToString(Len(results)),
     "Total UPROPERTY FGuid properties found: " \o ToString(total_properties(results)),
     "Valid properties: " \o ToString(total_valid(results)),
     "Invalid properties: " \o ToString(total_invalid(results)),
     "Suppressed properties: " \o ToString(total_suppressed(results)),
     "" >>
  \o (IF total_invalid(results) > 0
        THEN << BannerFailed, "", InvalidHeading, Rule40 >> \o invalid_items(results)
        ELSE << BannerPassed, "" >>)
  \o (IF total_suppressed(results) > 0
        THEN << "Suppressed Properties:", Rule20 >> \o suppressed_items(results) \o << "" >>
        ELSE <<>>)
  \o (IF total_valid(results) > 0
        THEN << "Valid Properties:", Rule15 >> \o valid_items(results) \o << "" >>
        ELSE <<>>)


(***************************************************************************)
(* scan_directory (lines 194-209) as a function of the suppression set,    *)
(* the tree and the order the glob returns its paths in.                   *)
(***************************************************************************)
RECURSIVE scan_directory(_, _, _)
scan_directory(suppression_patterns, tree, enum) ==
  IF enum = << >> THEN << >>
  ELSE LET header_file == enum[Len(enum)]
           before == scan_directory(suppression_patterns, tree, SubSeq(enum, 1, Len(enum) - 1))
           r == validate_file(suppression_patterns, header_file, tree[header_file])
       IN  IF tree[header_file].kind # "dir" /\ r.properties_found # << >>
             THEN Append(before, r)
             ELSE before

(***************************************************************************)
(* The inputs of a run.                                                    *)
(***************************************************************************)
\* os.path.isdir
ExistingDirectories == {"root"}
isdir(d) == d \in ExistingDirectories

\* parsed command lines; directory = None: the positional argument is missing.
\* --recursive is store_true with default True: it is True on every command line.
CommandLines ==
  [directory : {None, "nodir", "root"},
   help : BOOLEAN,
   recursive : {TRUE},
   suppression_file : {None, "supp.json"},
   create_suppression_file : {None, "new.json"},
   output : {None, "report.txt"},
   fail_on_invalid : BOOLEAN]

\* str(header_file) for the files Path(directory).glob("**/*.h") may return
PathNames == << "root/a.h", "root/b.h", "root/c.h", "root/d.h" >>
Paths == {PathNames[k] : k \in 1..MaxFiles}

\* the orders in which the glob may return the members of P
Enumerations(P) ==
  {e \in [1..Cardinality(P) -> P] : \A a, b \in DOMAIN e : a # b => e[a] # e[b]}

\* headers of the scanned tree
MainHeaders ==
  { << "struct FS", "UPROPERTY()", "FGuid A;" >>,
    << "struct FS", "UPROPERTY()", "FGuid A;", "UPROPERTY()", "FGuid B = FGuid(42);",
       "UPROPERTY()", "FGuid B = FGuid::NewGuid() ;" >>,
    << "UPROPERTY()", "UPROPERTY()", "FGuid A = FGuid();" >>,
    << "int32 X;" >> }

MainEntries == {Header(h) : h \in MainHeaders} \cup {Unreadable, Directory}

\* entries of the suppression file's array
MainItems == {JStr("FS::A"), JStr("root/b.h"), JStr("# Example suppressions:"), JInt, JArray}

(***************************************************************************)
(* State.                                                                  *)
(***************************************************************************)
VARIABLES
  pc,                    \* position in main
  args,                  \* parser.parse_args()
  supp_file,             \* the suppression file as load_suppressions found it
  suppression_patterns,  \* validator.suppression_patterns
  tree,                  \* path -> directory entry, for the paths the glob returns
  enum,                  \* the glob's paths, in the order it returns them
  idx,                   \* files of enum consumed by scan_directory's for loop
  opened,                \* paths validate_file was called on, in call order
  result,                \* scan_directory's local `result` (last validate_file return)
  results,               \* scan_directory's `results`
  report,                \* generate_report's lines (<<>> before it ran)
  report_to,             \* where the report went: None, "stdout" or args.output
  template_to,           \* where create_default_suppression_file wrote, or None
  stdout,                \* the other messages printed, in order
  traceback,             \* the uncaught exception that ended the run, or None
  exit_code              \* the process's exit status, -1 while running

vars == << pc, args, supp_file, suppression_patterns, tree, enum, idx, opened,
           result, results, report, report_to, template_to, stdout, traceback,
           exit_code >>

NoArgs == [directory |-> None, help |-> FALSE, recursive |-> TRUE,
           suppression_file |-> None, create_suppression_file |-> None,
           output |-> None, fail_on_invalid |-> FALSE]

NoResult == ValidationResult(None, <<>>, <<>>, <<>>, <<>>)

Init ==
  /\ pc = "parse_args"
  /\ args = NoArgs
  /\ supp_file = NoFile
  /\ suppression_patterns = {}
  /\ tree = << >>
  /\ enum = << >>
  /\ idx = 0
  /\ opened = << >>
  /\ result = NoResult
  /\ results = << >>
  /\ report = << >>
  /\ report_to = None
  /\ template_to = None
  /\ stdout = << >>
  /\ traceback = None
  /\ exit_code = -1

Exit(code) == pc' = "exit" /\ exit_code' = code

(***************************************************************************)
(* main (lines 287-353).                                                   *)
(***************************************************************************)
\* the help argparse prints on -h for the parser of lines 288-317 (program
\* validate_struct_initialization.py, 80 columns), line by line
HelpLines ==
  << "usage: validate_struct_initialization.py [-h] [--recursive]",
     "                                         [--suppression-file SUPPRESSION_FILE]",
     "                                         [--create-suppression-file CREATE_SUPPRESSION_FILE]",
     "                                         [--output OUTPUT] [--fail-on-invalid]",
     "                                         directory",
     "",
     "Validate UPROPERTY FGuid initialization patterns",
     "",
     "positional arguments:",
     "  directory             Directory to scan for header files",
     "",
     "options:",
     "  -h, --help            show this help message and exit",
     "  --recursive, -r       Scan directory recursively (default: True)",
     "  --suppression-file SUPPRESSION_FILE, -s SUPPRESSION_FILE",
     "                        Path to suppression file (JSON format)",
     "  --create-suppression-file CREATE_SUPPRESSION_FILE",
     "                        Create a default suppression file at the specified",
     "                        path",
     "  --output OUTPUT, -o OUTPUT",
     "                        Output file for the report (default: stdout)",
     "  --fail-on-invalid     Exit with non-zero code if invalid properties are",
     "                        found" >>

\* line 319: argparse prints the help to stdout and exits 0 on -h, and exits 2
\* (with its message on stderr) when the required positional argument is missing
ParseArgs ==
  /\ pc = "parse_args"
  /\ \E a \in CommandLines :
       /\ args' = a
       /\ stdout' = IF a.help THEN stdout \o HelpLines ELSE stdout
       /\ IF a.help THEN Exit(0)
          ELSE IF a.directory = None THEN Exit(2)
          ELSE pc' = "main" /\ exit_code' = exit_code
  /\ UNCHANGED << supp_file, suppression_patterns, tree, enum, idx, opened, result,
                  results, report, report_to, template_to, traceback >>

\* lines 321-325
CreateSuppressionFile ==
  /\ pc = "main"
  /\ Truthy(args.create_suppression_file)
  /\ template_to' = args.create_suppression_file
  /\ stdout' = Append(stdout, "Created default suppression file")
  /\ Exit(0)
  /\ UNCHANGED << args, supp_file, suppression_patterns, tree, enum, idx, opened,
                  result, results, report, report_to, traceback >>

\* lines 327-330
DirectoryError ==
  /\ pc = "main"
  /\ ~Truthy(args.create_suppression_file)
  /\ ~isdir(args.directory)
  /\ stdout' = Append(stdout, "Error: Directory does not exist")
  /\ Exit(1)
  /\ UNCHANGED << args, supp_file, suppression_patterns, tree, enum, idx, opened,
                  result, results, report, report_to, template_to, traceback >>

\* line 333: StructInitializationValidator(args.suppression_file), lines 51-53
Construct ==
  /\ pc = "main"
  /\ ~Truthy(args.create_suppression_file)
  /\ isdir(args.directory)
  /\ \E file \in SuppFileStates(MainItems) :
       LET r == load_suppressions(args.suppression_file, file)
       IN  /\ Truthy(args.suppression_file) \/ file = NoFile
           /\ supp_file' = file
           /\ suppression_patterns' = r.patterns
           /\ stdout' = IF r.warned
                          THEN Append(stdout, "Warning: Could not load suppression file")
                          ELSE stdout
           /\ traceback' = r.raised
           /\ IF r.raised # None THEN Exit(1)
              ELSE pc' = "glob" /\ exit_code' = exit_code
  /\ UNCHANGED << args, tree, enum, idx, opened, result, results, report, report_to,
                  template_to >>

\* line 203: Path(directory).glob(pattern) returns the tree's *.h paths in some order
Glob ==
  /\ pc = "glob"
  /\ \E P \in SUBSET Paths :
       /\ enum' \in Enumerations(P)
       /\ tree' \in [P -> MainEntries]
  /\ idx' = 0
  /\ pc' = "scan"
  /\ UNCHANGED << args, supp_file, suppression_patterns, opened, result, results,
                  report, report_to, template_to, stdout, traceback, exit_code >>

\* the loop with a read failure ending the walk
ScanFile_stop_on_unreadable ==
  /\ pc = "scan"
  /\ idx < Len(enum)
  /\ LET header_file == enum[idx + 1]
         entry == tree[header_file]
         r == validate_file(suppression_patterns, header_file, entry)
     IN  IF entry.kind = "dir"
           THEN idx' = idx + 1 /\ UNCHANGED << opened, result, results, stdout >>
           ELSE /\ opened' = Append(opened, header_file)
                /\ result' = r
                /\ results' = IF r.properties_found # <<>> THEN Append(results, r)
                                                          ELSE results
                /\ stdout' = IF entry.kind = "unreadable"
                               THEN Append(stdout, "Warning: Could not read file " \o header_file)
                               ELSE stdout
                /\ idx' = IF entry.kind = "unreadable" THEN Len(enum) ELSE idx + 1
  /\ UNCHANGED << pc, args, supp_file, suppression_patterns, tree, enum, report,
                  report_to, template_to, traceback, exit_code >>

\* lines 203-207: one iteration of scan_directory's for loop
ScanFile ==
  /\ pc = "scan"
  /\ idx < Len(enum)
  /\ LET header_file == enum[idx + 1]
         entry == tree[header_file]
         r == validate_file(suppression_patterns, header_file, entry)
     IN  IF entry.kind = "dir"
           THEN UNCHANGED << opened, result, results, stdout >>
           ELSE /\ opened' = Append(opened, header_file)
                /\ result' = r
                /\ results' = IF r.properties_found # <<>> THEN Append(results, r)
                                                          ELSE results
                /\ stdout' = IF entry.kind = "unreadable"
                               THEN Append(stdout, "Warning: Could not read file " \o header_file)
                               ELSE stdout
  /\ idx' = idx + 1
  /\ UNCHANGED << pc, args, supp_file, suppression_patterns, tree, enum, report,
                  report_to, template_to, traceback, exit_code >>

\* lines 336-345: the loop is over; generate the report and write it
Report ==
  /\ pc = "scan"
  /\ idx = Len(enum)
  /\ report' = generate_report(results)
  /\ IF Truthy(args.output)
       THEN /\ report_to' = args.output
            /\ stdout' = Append(stdout, "Report written to: " \o args.output)
       ELSE /\ report_to' = "stdout"
            /\ stdout' = stdout
  /\ pc' = "check"
  /\ UNCHANGED << args, supp_file, suppression_patterns, tree, enum, idx, opened,
                  result, results, template_to, traceback, exit_code >>

\* lines 347-353
CheckFailures ==
  /\ pc = "check"
  /\ IF args.fail_on_invalid /\ total_invalid(results) > 0 THEN Exit(1) ELSE Exit(0)
  /\ UNCHANGED << args, supp_file, suppression_patterns, tree, enum, idx, opened,
                  result, results, report, report_to, template_to, stdout, traceback >>

Next ==
  \/ ParseArgs
  \/ CreateSuppressionFile
  \/ DirectoryError
  \/ Construct
  \/ Glob
  \/ ScanFile
  \/ Report
  \/ CheckFailures

Spec == Init /\ [][Next]_vars


(***************************************************************************)
(* validate_file on its own: the state scan_directory is in when its loop  *)
(* reaches a single header root/a.h, for every header of the input sets    *)
(* and every loaded suppression set.                                       *)
(***************************************************************************)
\* lines of the scanning inputs (window and scope cases)
ScanLines == {"UPROPERTY()", "FGuid A;", "    FGuid B = FGuid(); // id", "struct FS",
              "struct UnknownStruct", "int32 X;"}

\* lines of the classification inputs (initializer and suppression cases)
ClassifyLines == {"UPROPERTY()", "struct FS", "FGuid A;", "FGuid A = FGuid();",
                  "FGuid B = FGuid::NewGuid() ;", "FGuid B = FGuid(42);", "FGuid A = ;",
                  "FGuid A = FGuid ();"}

FileItems == {JStr("root/a.h:FS::A"), JStr("FS::A"), JStr("*::B"), JStr("root/a.h")}

FileInputs ==
  ({Header(h) : h \in SeqsUpTo(ScanLines, MaxLines)} \X {{}})
  \cup (({Header(h) : h \in SeqsUpTo(ClassifyLines, MaxClassifyLines)} \cup {Unreadable})
          \X SubsetsUpTo(FileItems, MaxSuppressions))

FileArgs == [NoArgs EXCEPT !.directory = "root", !.suppression_file = "supp.json"]

InitFile ==
  /\ pc = "scan"
  /\ args = FileArgs
  /\ \E in \in FileInputs :
       /\ tree = [p \in {"root/a.h"} |-> in[1]]
       /\ suppression_patterns = in[2]
       /\ supp_file = SuppFile("json", "object", "list", in[2])
  /\ enum = << "root/a.h" >>
  /\ idx = 0
  /\ opened = << >>
  /\ result = NoResult
  /\ results = << >>
  /\ report = << >>
  /\ report_to = None
  /\ template_to = None
  /\ stdout = << >>
  /\ traceback = None
  /\ exit_code = -1

NextFile == ScanFile

FileSpec == InitFile /\ [][NextFile]_vars


(***************************************************************************)
(* Properties.                                                             *)
(***************************************************************************)
Count(s, p) == Cardinality({k \in DOMAIN s : s[k] = p})

\* the header of root/a.h in the file-level specification
FileEntry == tree["root/a.h"]
Validated == idx = 1 /\ FileEntry.kind # "dir"

\* r's three lists partition r.properties_found
Partitioned(r) ==
  /\ Len(r.properties_found)
       = Len(r.valid_properties) + Len(r.invalid_properties) + Len(r.suppressed_properties)
  /\ \A p \in Range(r.properties_found) \cup Range(r.valid_properties)
              \cup Range(r.invalid_properties) \cup Range(r.suppressed_properties) :
       /\ Count(r.properties_found, p)
            = Count(r.valid_properties, p) + Count(r.invalid_properties, p)
              + Count(r.suppressed_properties, p)
       /\ Cardinality({c \in {"v", "i", "s"} :
            p \in Range(CASE c = "v" -> r.valid_properties
                          [] c = "i" -> r.invalid_properties
                          [] c = "s" -> r.suppressed_properties)}) = 1

\* the counts of all the results, taken list by list
CountOver(results_, pick(_)) ==
  SumSeq([k \in DOMAIN results_ |-> Len(pick(results_[k]))])
PickValid(r) == r.valid_properties
PickInvalid(r) == r.invalid_properties
PickSuppressed(r) == r.suppressed_properties

\* C1: every validate_file result is partitioned: each found occurrence is in
\* exactly one of the valid, invalid and suppressed lists and these hold nothing
\* else; and the report's found total is the sum of its three category totals.
C1_Partition ==
  /\ Partitioned(result)
  /\ \A k \in DOMAIN results : Partitioned(results[k])
  /\ report # << >> =>
       /\ report[6] = "Total UPROPERTY FGuid properties found: "
                        \o ToString(CountOver(results, PickValid)
                                    + CountOver(results, PickInvalid)
                                    + CountOver(results, PickSuppressed))
       /\ report[7] = "Valid properties: " \o ToString(CountOver(results, PickValid))
       /\ report[8] = "Invalid properties: " \o ToString(CountOver(results, PickInvalid))
       /\ report[9] = "Suppressed properties: " \o ToString(CountOver(results, PickSuppressed))

\* a reported file with occurrences in all three categories
C1_Witness ==
  /\ report # << >>
  /\ \E k \in DOMAIN results :
       /\ results[k].valid_properties # << >>
       /\ results[k].invalid_properties # << >>
       /\ results[k].suppressed_properties # << >>

\* the four candidate keys of an occurrence, as the specification lists them
CandidateKeys(p) ==
  { p.file_path \o ":" \o p.struct_name \o "::" \o p.property_name,
    p.struct_name \o "::" \o p.property_name,
    "*::" \o p.property_name,
    p.file_path }

KeyLoaded(p) == \E key \in CandidateKeys(p) : JStr(key) \in suppression_patterns

CanonicalInitializers == {"FGuid()", "FGuid::NewGuid()"}

\* C2: an occurrence is in the suppressed list iff one of its four candidate
\* keys is in the loaded suppression set, whatever its initializer; one that
\* matches a key and has a canonical initializer is suppressed and not valid.
C2_SuppressedIffKey ==
  Validated =>
    \A p \in Range(result.properties_found) :
      /\ p \in Range(result.suppressed_properties) <=> KeyLoaded(p)
      /\ KeyLoaded(p) => p \notin Range(result.valid_properties)

\* an occurrence with a canonical initializer that a key suppresses
C2_Witness ==
  /\ Validated
  /\ \E p \in Range(result.suppressed_properties) :
       /\ p.initializer_value \in CanonicalInitializers
       /\ JStr("*::" \o p.property_name) \in suppression_patterns

\* C3: a non-suppressed occurrence is valid iff it has an initializer whose
\* trimmed text is FGuid() or FGuid::NewGuid(); every other one (no initializer,
\* empty initializer, FGuid(42), other text) is invalid.
C3_ValidIffCanonical ==
  Validated =>
    \A p \in Range(result.properties_found) :
      ~KeyLoaded(p) =>
        /\ p \in Range(result.valid_properties)
             <=> (p.has_initializer /\ p.initializer_value \in CanonicalInitializers)
        /\ p \in Range(result.invalid_properties)
             <=> ~(p.has_initializer /\ p.initializer_value \in CanonicalInitializers)
        /\ p.declaration_line \in {"FGuid A;", "FGuid A = ;", "FGuid B = FGuid(42);",
                                   "FGuid A = FGuid ();"}
             => p \in Range(result.invalid_properties)
        /\ p.declaration_line \in {"FGuid A = FGuid();", "FGuid B = FGuid::NewGuid() ;"}
             => p \in Range(result.valid_properties)

\* one file with a trimmed canonical initializer found valid and an
\* initializer with an argument found invalid
C3_Witness ==
  /\ Validated
  /\ \E p \in Range(result.valid_properties) :
       p.declaration_line = "FGuid B = FGuid::NewGuid() ;"
  /\ \E p \in Range(result.invalid_properties) :
       p.declaration_line = "FGuid B = FGuid(42);"


(***************************************************************************)
(* Exit codes and errors of main.                                          *)
(***************************************************************************)
Exited == pc = "exit"
Parsed == pc # "parse_args"
ScanCompleted == report # << >>
NoCreate == ~Truthy(args.create_suppression_file)

\* the invalid occurrences of all the results, counted one by one
InvalidCount ==
  Cardinality(UNION {{<<k, m>> : m \in DOMAIN results[k].invalid_properties} :
                       k \in DOMAIN results})

\* the root directory argument is missing or is no existing directory
BadRoot == args.directory = None \/ ~isdir(args.directory)

\* a run that asks for neither the help nor the suppression template, the two
\* requests that end with code 0 before the directory is looked at
Ordinary == ~args.help /\ NoCreate

\* C4: in every ordinary run the exit code is 1 exactly when the root directory
\* argument is bad (missing or no existing directory) or the scan completed
\* with invalid findings and --fail-on-invalid; it is 0 whenever the scan
\* completes otherwise, warnings or not.
C4_Original ==
  (Exited /\ Ordinary) =>
    /\ exit_code = 1 <=> (BadRoot \/ (ScanCompleted /\ InvalidCount > 0 /\ args.fail_on_invalid))
    /\ (ScanCompleted /\ ~(InvalidCount > 0 /\ args.fail_on_invalid)) => exit_code = 0

NoScan ==
  opened = << >> /\ enum = << >> /\ result = NoResult /\ results = << >>
    /\ report = << >> /\ report_to = None

\* C5: in every ordinary run with the root directory argument missing or no
\* existing directory, main exits with code 1, scans nothing and writes no
\* report, whatever the other options.
C5_Original ==
  (Parsed /\ Ordinary /\ BadRoot) => NoScan /\ (Exited => exit_code = 1)


(***************************************************************************)
(* Suppression loading.                                                    *)
(***************************************************************************)
\* the constructor has run (line 333 is behind)
Constructed == pc \in {"glob", "scan", "check"} \/ (Exited /\ (traceback # None \/ ScanCompleted))

\* the file exists and is unreadable, is no JSON, has a top level that is no
\* object, has a "suppressions" member that is no sequence, or has an entry
\* that is no string
Malformed(file) ==
  \/ file.kind \in {"ioerror", "undecodable", "badjson"}
  \/ file.kind = "json" /\ file.top # "object"
  \/ file.kind = "json" /\ file.top = "object" /\ file.sup \notin {"absent", "list"}
  \/ file.kind = "json" /\ file.top = "object" /\ file.sup = "list"
       /\ \E it \in file.items : it.t # "str"

LoadWarned == "Warning: Could not load suppression file" \in Range(stdout)

\* C6 as stated: loading suppressions never aborts the run; without a path or
\* with a nonexistent file the set is empty and nothing is reported; with a
\* malformed file a warning is printed, the set is empty and the scan proceeds.
C6_Original ==
  /\ traceback = None
  /\ Constructed =>
       /\ (~Truthy(args.suppression_file) \/ supp_file.kind = "missing")
            => suppression_patterns = {} /\ ~LoadWarned
       /\ (Truthy(args.suppression_file) /\ Malformed(supp_file))
            => LoadWarned /\ suppression_patterns = {} /\ (Exited => ScanCompleted)

(***************************************************************************)
(* The walk and the report.                                                *)
(***************************************************************************)
Scanning == pc \in {"scan", "check"} \/ (Exited /\ ScanCompleted)

\* the paths the loop has consumed, in the glob's order
Consumed == SubSeq(enum, 1, idx)

IsFile(p) == tree[p].kind # "dir"
Yields(p) == tree[p].kind = "file" /\ scan_from(p, tree[p].lines, 0) # << >>

\* C7: scan_directory processes every enumerated file exactly once, in
\* enumeration order; an unreadable file contributes no occurrences and no
\* result, files without occurrences are left out, and neither a read failure
\* nor invalid findings keep the later files from being processed and reported.
C7_WalkCompletes ==
  Scanning =>
    /\ opened = SelectSeq(Consumed, IsFile)
    /\ [k \in DOMAIN results |-> results[k].file_path] = SelectSeq(Consumed, Yields)
    /\ \A k \in DOMAIN results :
         /\ results[k].properties_found # << >>
         /\ results[k] = validate_file(suppression_patterns, results[k].file_path,
                                       tree[results[k].file_path])
    /\ pc \in {"check", "exit"} =>
         /\ idx = Len(enum)
         /\ report = generate_report(results)

\* a finished walk whose first file was unreadable, whose second file had an
\* invalid property and whose last file is reported as well
C7_Witness ==
  /\ Exited /\ ScanCompleted
  /\ Len(enum) >= 2 /\ tree[enum[1]].kind = "unreadable"
  /\ Len(results) >= 1
  /\ results[Len(results)].file_path = enum[Len(enum)]
  /\ InvalidCount > 0

\* C8: the banner reads VALIDATION PASSED iff no result has an invalid
\* occurrence and VALIDATION FAILED otherwise; the itemized invalid section is
\* there only under VALIDATION FAILED; with --fail-on-invalid the exit code is
\* 1 exactly when the banner is VALIDATION FAILED.
C8_BannerAgrees ==
  ScanCompleted =>
    /\ report[11] = IF InvalidCount = 0 THEN BannerPassed ELSE BannerFailed
    /\ BannerPassed \in Range(report) <=> InvalidCount = 0
    /\ BannerFailed \in Range(report) <=> InvalidCount > 0
    /\ InvalidHeading \in Range(report) => BannerFailed \in Range(report)
    /\ (Exited /\ args.fail_on_invalid)
         => (exit_code = 1 <=> BannerFailed \in Range(report))

\* a passing run whose only occurrence is suppressed (one found, none valid,
\* none invalid), with --fail-on-invalid
C8_Witness ==
  /\ Exited /\ ScanCompleted /\ args.fail_on_invalid /\ exit_code = 0
  /\ Len(results) = 1
  /\ Len(results[1].properties_found) = 1
  /\ Len(results[1].suppressed_properties) = 1
  /\ BannerPassed \in Range(report)

\* the tree's paths in sorted order
RECURSIVE SortedFrom(_)
SortedFrom(k) ==
  IF k > Len(PathNames) THEN << >>
  ELSE (IF PathNames[k] \in DOMAIN tree THEN << PathNames[k] >> ELSE << >>)
       \o SortedFrom(k + 1)
SortedEnumeration == SortedFrom(1)

\* the report and exit code of the run on the same tree and suppression file
\* in which the glob returns the paths in sorted order
SortedRunResults == scan_directory(suppression_patterns, tree, SortedEnumeration)
SortedRunReport == generate_report(SortedRunResults)
SortedRunExit == IF args.fail_on_invalid /\ total_invalid(SortedRunResults) > 0 THEN 1 ELSE 0

\* C9 as stated: the report text and the exit code of a run are those of any
\* other run on the same file contents and suppression file, whatever order
\* the directory enumeration returns the files in.
C9_Original ==
  (Exited /\ ScanCompleted) =>
    /\ report = SortedRunReport
    /\ exit_code = SortedRunExit

(***************************************************************************)
(* The lookahead window.                                                   *)
(***************************************************************************)
FileLines == FileEntry.lines
IsAnnotationAt(i) == FileLines[i + 1] \in AnnotationLines
IsDeclarationAt(j) == FileLines[j + 1] \in DOMAIN DeclarationGroups

\* the 0-based indices i+1 .. i+4 that are lines of the file
Window(i) == {j \in (i + 1)..(i + 4) : j <= Len(FileLines) - 1}

\* the annotation lines with a declaration in their window
AnnotationsWithDeclaration ==
  {i \in 0..(Len(FileLines) - 1) : IsAnnotationAt(i) /\ \E j \in Window(i) : IsDeclarationAt(j)}

\* C10: a declaration is detected for an annotation line i only on the lines
\* i+1 .. i+4 of the file: there is one occurrence per annotation line with a
\* declaration in that window and none for the others, and every occurrence's
\* line is in the window of an annotation line; so a declaration on the 4th
\* line after the annotation is found and one on the 5th is not.
C10_LookaheadWindow ==
  (Validated /\ FileEntry.kind = "file") =>
    /\ Len(result.properties_found) = Cardinality(AnnotationsWithDeclaration)
    /\ \A k \in DOMAIN result.properties_found :
         LET j == result.properties_found[k].line_number - 1
         IN  IsDeclarationAt(j) /\ \E i \in AnnotationsWithDeclaration : j \in Window(i)
    /\ (Len(FileLines) >= 5 /\ AnnotationsWithDeclaration = {0}
          /\ IsDeclarationAt(4) /\ \A j \in 1..3 : ~IsDeclarationAt(j))
         => /\ Len(result.properties_found) = 1
            /\ result.properties_found[1].line_number = 5
    /\ (Len(FileLines) >= 6 /\ IsAnnotationAt(0) /\ IsDeclarationAt(5)
          /\ \A j \in 1..4 : ~IsDeclarationAt(j) /\ ~IsAnnotationAt(j))
         => result.properties_found = << >>

\* the declaration on the 4th line after the only annotation line is detected
C10_Witness ==
  /\ Validated /\ FileEntry.kind = "file"
  /\ Len(FileLines) = 5 /\ IsAnnotationAt(0) /\ IsDeclarationAt(4)
  /\ \A j \in 1..3 : ~IsDeclarationAt(j) /\ ~IsAnnotationAt(j)
  /\ Len(result.properties_found) = 1
  /\ result.properties_found[1].line_number = 5


(***************************************************************************)
(* First match wins.                                                       *)
(***************************************************************************)
Annotations == {i \in 0..(Len(FileLines) - 1) : IsAnnotationAt(i)}

\* the first declaration line in the window of annotation line i
FirstInWindow(i) ==
  CHOOSE j \in Window(i) :
    IsDeclarationAt(j) /\ \A j2 \in Window(i) : IsDeclarationAt(j2) => j <= j2

\* the k-th annotation line, from the top, that has a declaration in its window
NthAnnotation(k) ==
  CHOOSE i \in AnnotationsWithDeclaration :
    Cardinality({h \in AnnotationsWithDeclaration : h < i}) = k - 1

\* C11: each annotation line yields at most one occurrence, and it is the
\* first declaration line of its 4-line window: the k-th occurrence is that of
\* the k-th annotation line with a declaration in its window and records the
\* first such line (its number, property and text); the occurrences of a file
\* are never more than its annotation lines.
C11_FirstMatchWins ==
  (Validated /\ FileEntry.kind = "file") =>
    /\ Len(result.properties_found) = Cardinality(AnnotationsWithDeclaration)
    /\ Len(result.properties_found) <= Cardinality(Annotations)
    /\ \A k \in DOMAIN result.properties_found :
         LET p == result.properties_found[k]
             i == NthAnnotation(k)
             j == FirstInWindow(i)
         IN  /\ p.line_number = j + 1
             /\ p.property_name = DeclarationGroups[FileLines[j + 1]][1]
             /\ p.declaration_line = strip(FileLines[j + 1])
             /\ p.uproperty_line = strip(FileLines[i + 1])

\* one annotation line followed by two different declarations in its window:
\* one occurrence, the first declaration's
C11_Witness ==
  /\ Validated /\ FileEntry.kind = "file"
  /\ Annotations = {0}
  /\ Len(FileLines) >= 3
  /\ FileLines[2] = "FGuid A;" /\ FileLines[3] = "    FGuid B = FGuid(); // id"
  /\ Len(result.properties_found) = 1
  /\ result.properties_found[1].property_name = "A"
  /\ result.properties_found[1].line_number = 2


(***************************************************************************)
(* The enclosing structure.                                                *)
(***************************************************************************)
IsStructAt(i) == FileLines[i + 1] \in DOMAIN StructGroups

\* the structure-declaration lines strictly before line j (0-based)
StructsBefore(j) == {i \in 0..(j - 1) : IsStructAt(i)}

\* the name captured from the nearest of them
NearestStructName(j) ==
  StructGroups[FileLines[(CHOOSE i \in StructsBefore(j) :
                            \A i2 \in StructsBefore(j) : i2 <= i) + 1]]

\* C12 as stated: the structure name of an occurrence is the name captured from
\* the nearest structure-declaration line strictly before its declaration line,
\* and it is "UnknownStruct" exactly when no such line precedes it.
C12_Original ==
  (Validated /\ FileEntry.kind = "file") =>
    \A p \in Range(result.properties_found) :
      LET j == p.line_number - 1
      IN  /\ StructsBefore(j) # {} => p.struct_name = NearestStructName(j)
          /\ p.struct_name = "UnknownStruct" <=> StructsBefore(j) = {}

\* C12, amended: the structure name of an occurrence is the name captured from
\* the nearest structure-declaration line strictly before its declaration line,
\* whatever comes between them, and it is "UnknownStruct" whenever no such
\* line precedes it (it is "UnknownStruct" also when the nearest structure is
\* itself named so).
C12_NearestStruct ==
  (Validated /\ FileEntry.kind = "file") =>
    \A p \in Range(result.properties_found) :
      LET j == p.line_number - 1
      IN  p.struct_name = IF StructsBefore(j) = {} THEN "UnknownStruct"
                          ELSE NearestStructName(j)

\* an occurrence below two structure lines of different names takes the name
\* of the nearer one
C12_Witness ==
  /\ Validated /\ FileEntry.kind = "file"
  /\ \E p \in Range(result.properties_found) :
       /\ p.struct_name = "FS"
       /\ \E a, b \in StructsBefore(p.line_number - 1) :
            a < b /\ FileLines[a + 1] = "struct UnknownStruct" /\ FileLines[b + 1] = "struct FS"


(***************************************************************************)
(* Order of the occurrences of a file.                                     *)
(***************************************************************************)
\* C13 as stated: the occurrences of a file have strictly increasing line
\* numbers, each between 1 and the file's line count, so that no declaration
\* line is recorded in more than one occurrence, also when the windows of
\* several annotation lines contain the same declaration.
C13_Original ==
  (Validated /\ FileEntry.kind = "file") =>
    LET found == result.properties_found
    IN  /\ \A k \in DOMAIN found : found[k].line_number \in 1..Len(FileLines)
        /\ \A k \in 1..(Len(found) - 1) : found[k].line_number < found[k + 1].line_number
        /\ \A k, m \in DOMAIN found : k # m => found[k].line_number # found[m].line_number

=============================================================================
